---- MODULE Spec2Model ----
(***************************************************************************)
(* Model of the command-line definition and parsing library in             *)
(* src/src/main.ts (namespace CLI): define, Definition.parse,              *)
(* Definition.updateStructuredArguments, the option helpers and            *)
(* isRunningAsCLI.                                                         *)
(*                                                                         *)
(* JavaScript values are tagged records.  A number is held as whole part n *)
(* and tenths f (value n + f/10, n >= 0), or as NaN.  The error sink       *)
(* (displayUserError) and the help sink (displayHelp) are declared to      *)
(* return `never`: a call to either ends the library call that made it.    *)
(***************************************************************************)
EXTENDS Integers, Sequences, FiniteSets, TLC

VARIABLES scenario, params, defineResult, call, errorSink, helpSink, cliRun,
          heap, held, log, inputs

vars == <<scenario, params, defineResult, call, errorSink, helpSink, cliRun,
          heap, held, log, inputs>>

----------------------------------------------------------------------------
(* Bounds of the model *)

MaxTokens == 4
MaxArrLen == 2
MaxCalls == 2
MaxHeapTokens == 2
MaxChanges == 1
MaxDirectCalls == 1
MaxMainTokens == 2

----------------------------------------------------------------------------
(* JavaScript values *)

Undefined == [t |-> "undefined"]
Bool(b) == [t |-> "boolean", b |-> b]
Str(s) == [t |-> "string", s |-> s]
Frac(n, f) == [t |-> "number", n |-> n, f |-> f, nan |-> FALSE]
Num(n) == Frac(n, 0)
NaN == [t |-> "number", n |-> 0, f |-> 0, nan |-> TRUE]
Arr(a) == [t |-> "array", a |-> a]
RegExp(accepts) == [t |-> "regexp", accepts |-> accepts]

TypeOf(v) == IF v.t \in {"array", "regexp"} THEN "object" ELSE v.t

IsArray(v) == v.t = "array"

Truthy(v) ==
    CASE v.t = "undefined" -> FALSE
      [] v.t = "boolean" -> v.b
      [] v.t = "string" -> v.s # ""
      [] v.t = "number" -> ~v.nan /\ (v.n # 0 \/ v.f # 0)
      [] OTHER -> TRUE

\* a < b on numbers; every comparison with NaN is false
NumLt(a, b) == ~a.nan /\ ~b.nan /\ a.n * 10 + a.f < b.n * 10 + b.f

\* (value % 1) !== 0
HasFraction(v) == v.nan \/ v.f # 0

IsFinite(v) == v.t = "number" /\ ~v.nan

\* strict equality ===  (NaN is not equal to itself)
StrictEq(a, b) == a = b /\ ~(a.t = "number" /\ a.nan)

Range(s) == {s[i] : i \in 1..Len(s)}

SeqsUpTo(S, n) == UNION {[1..k -> S] : k \in 0..n}

\* result[argName]: property read of a record that may lack the property
Get(obj, name) == IF name \in DOMAIN obj THEN obj[name] ELSE Undefined

\* result[argName] = value
Put(obj, name, value) ==
    [k \in DOMAIN obj \cup {name} |-> IF k = name THEN value ELSE obj[k]]

EmptyObject == [k \in {} |-> Undefined]

----------------------------------------------------------------------------
(* Option definitions and the helper functions that build them *)

\* the fields a caller hands to a helper; `keys` is Str(key) or Arr(<<key, ...>>)
Fields(keys) ==
    [keys |-> keys, hasDefault |-> FALSE, default |-> Undefined,
     description |-> "", allowedValues |-> Undefined, isHidden |-> FALSE,
     min |-> Undefined, max |-> Undefined,
     minLength |-> Undefined, maxLength |-> Undefined, mustMatch |-> Undefined,
     isHelp |-> FALSE, type |-> ""]

WithDefault(p, v) == [p EXCEPT !.hasDefault = TRUE, !.default = v]
WithAllowed(p, vs) == [p EXCEPT !.allowedValues = Arr(vs)]
WithBounds(p, lo, hi) == [p EXCEPT !.min = lo, !.max = hi]

isArgumentOptional(argDef) == argDef.hasDefault

\* a variant that also takes a flag for an array parameter
isArrayParameterOrFlag(def) ==
    def.type \in {"array of string", "array of path", "array of int", "array of double", "bool"}

isArrayParameter(def) ==
    def.type \in {"array of string", "array of path", "array of int", "array of double"}

processCommonValues(type, p) ==
    [p EXCEPT !.type = type,
              !.keys = IF IsArray(p.keys) THEN p.keys.a ELSE <<p.keys.s>>]

str(p) == processCommonValues("string", p)
strArr(p) == processCommonValues("array of string", p)
path(p) == processCommonValues("string", p)
pathArr(p) == processCommonValues("array of string", p)
number(p) == processCommonValues("double", p)
numberArr(p) == processCommonValues("array of double", p)
int(p) == processCommonValues("int", p)
intArr(p) == processCommonValues("array of int", p)
bool(p) == [processCommonValues("bool", WithDefault(p, Bool(FALSE))) EXCEPT !.isHelp = FALSE]
help(p) == [processCommonValues("bool", WithDefault(p, Bool(FALSE))) EXCEPT !.isHelp = TRUE]

minPort == 1
maxPort == 65535

port(p) == [processCommonValues("int", p) EXCEPT !.min = Num(minPort), !.max = Num(maxPort)]
portArr(p) == [processCommonValues("int", p) EXCEPT !.min = Num(minPort), !.max = Num(maxPort)]

\* one property of the `options` object: its name and its definition
Opt(name, def) == [name |-> name, def |-> def]

OptionNames(ps) == {ps.options[i].name : i \in 1..Len(ps.options)}

OptionDef(ps, argName) ==
    (CHOOSE e \in Range(ps.options) : e.name = argName).def

----------------------------------------------------------------------------
(* Outcomes of a library call and the messages handed to the sinks *)

\* new Error(msg): the message template and the values interpolated into it
Msg(id, parts) == [id |-> id, parts |-> parts]
NoMsg == Msg("", <<>>)

\* the call returned `value` to its caller
Return(value) == [kind |-> "return", value |-> value, msg |-> NoMsg, lines |-> <<>>]
\* this.fail(msg): the error sink was invoked and did not return
Fail(msg) == [kind |-> "error", value |-> EmptyObject, msg |-> msg, lines |-> <<>>]
\* handler(helpLines): the help sink was invoked and did not return
Help(lines) == [kind |-> "help", value |-> EmptyObject, msg |-> NoMsg, lines |-> lines]
\* throw new Error(msg), or a TypeError of the runtime: propagates to the caller
Throw(msg) == [kind |-> "throw", value |-> EmptyObject, msg |-> msg, lines |-> <<>>]

IsReturn(o) == o.kind = "return"

----------------------------------------------------------------------------
(* define / DefinitionImpl.constructor *)

Params(options, noAutoHelp, pathResolveBase) ==
    [options |-> options, noAutoHelp |-> noAutoHelp,
     helpHeader |-> "", pathResolveBase |-> pathResolveBase]

DefaultHelpOption ==
    help([Fields(Arr(<<"-h", "--h", "-help", "--help">>))
            EXCEPT !.description = "Display this help and exit."])

\* {...params.options, help: ...}: replaces a property named help in place,
\* appends it otherwise
SpreadHelp(options) ==
    IF \E i \in 1..Len(options) : options[i].name = "help"
    THEN [i \in 1..Len(options) |->
            IF options[i].name = "help" THEN Opt("help", DefaultHelpOption) ELSE options[i]]
    ELSE Append(options, Opt("help", DefaultHelpOption))

tryAddDefaultHelpOption(ps) ==
    IF ps.noAutoHelp THEN ps
    ELSE LET haveDesignatedHelp ==
                \E i \in 1..Len(ps.options) :
                    ps.options[i].def.type = "bool" /\ ps.options[i].def.isHelp
         IN IF haveDesignatedHelp THEN ps
            ELSE [ps EXCEPT !.options = SpreadHelp(ps.options)]

\* new DefinitionImpl(params): the constructor only adds the help option
define(ps) == Return(tryAddDefaultHelpOption(ps))

----------------------------------------------------------------------------
(* buildKeysMap *)

RECURSIVE buildKeysLoop(_, _, _, _, _)
\* walks the options in order and each option's keys in order;
\* i is the option, j the key of that option to bind next
buildKeysLoop(options, i, j, knownNames, result) ==
    IF i > Len(options) THEN Return(result)
    ELSE LET argName == options[i].name
             keys == options[i].def.keys
         IN IF j = 1 /\ Len(keys) = 0
            THEN Throw(Msg("has no keys", <<Str(argName)>>))
            ELSE IF j = 1 /\ argName \in knownNames
            THEN Throw(Msg("is mentioned twice", <<Str(argName)>>))
            ELSE IF j > Len(keys)
            THEN buildKeysLoop(options, i + 1, 1, knownNames \cup {argName}, result)
            ELSE IF keys[j] \in DOMAIN result
            THEN Throw(Msg("key is bound to more than one argument",
                           <<Str(keys[j]), Str(argName), Str(result[keys[j]])>>))
            ELSE buildKeysLoop(options, i, j + 1, knownNames, Put(result, keys[j], argName))

buildKeysMap(ps) == buildKeysLoop(ps.options, 1, 1, {}, EmptyObject)

----------------------------------------------------------------------------
(* extract *)

\* parseFloat on the tokens of the model's alphabet; any other token of the
\* alphabet does not start with a number
ParseFloat(s) ==
    CASE s = "0" -> Num(0)
      [] s = "1" -> Num(1)
      [] s = "2" -> Num(2)
      [] s = "1.5" -> Frac(1, 5)
      [] s = "65535" -> Num(65535)
      [] s = "65536" -> Num(65536)
      [] OTHER -> NaN

\* the tail of the loop body: an array value is pushed to result[argName] ?? [],
\* any other value is assigned
Store(result, argName, actualValue, isArray) ==
    IF isArray
    THEN IF argName \in DOMAIN result /\ result[argName].t # "undefined"
         THEN Put(result, argName, Arr(Append(result[argName].a, actualValue)))
         ELSE result
    ELSE Put(result, argName, actualValue)

\* a variant of the loop that takes a known key after a key for a key, never
\* for a value
RECURSIVE extractLoopLookahead(_, _, _, _, _, _)
extractLoopLookahead(ps, keyToArgNameMap, values, i, knownArguments, result) ==
    IF i > Len(values) THEN Return(result)
    ELSE LET v == values[i] IN
    IF v \notin DOMAIN keyToArgNameMap
    THEN Fail(Msg("Unknown CLI parameter", <<Str(v)>>))
    ELSE LET argName == keyToArgNameMap[v]
             def == OptionDef(ps, argName)
             isArray == isArrayParameter(def)
         IN
    IF argName \in knownArguments /\ ~isArray
    THEN Fail(Msg("passed more than once", <<Str(argName), Str(v)>>))
    ELSE IF def.type = "bool"
    THEN extractLoopLookahead(ps, keyToArgNameMap, values, i + 1, knownArguments \cup {argName},
                     Store(result, argName, Bool(TRUE), isArray))
    ELSE IF i = Len(values) \/ values[i + 1] \in DOMAIN keyToArgNameMap
    THEN Fail(Msg("Expected to have some value after CLI key", <<Str(v)>>))
    ELSE IF def.type \in {"int", "array of int", "double", "array of double"}
    THEN extractLoopLookahead(ps, keyToArgNameMap, values, i + 2, knownArguments \cup {argName},
                     Store(result, argName, ParseFloat(values[i + 1]), isArray))
    ELSE IF def.type \in {"string", "array of string", "path", "array of path"}
    THEN extractLoopLookahead(ps, keyToArgNameMap, values, i + 2, knownArguments \cup {argName},
                     Store(result, argName, Str(values[i + 1]), isArray))
    ELSE Throw(Msg("Unexpected argument value type", <<Str(def.type)>>))

RECURSIVE extractLoop(_, _, _, _, _, _)
extractLoop(ps, keyToArgNameMap, values, i, knownArguments, result) ==
    IF i > Len(values) THEN Return(result)
    ELSE LET v == values[i] IN
    IF v \notin DOMAIN keyToArgNameMap
    THEN Fail(Msg("Unknown CLI parameter", <<Str(v)>>))
    ELSE LET argName == keyToArgNameMap[v]
             def == OptionDef(ps, argName)
             isArray == isArrayParameter(def)
         IN
    IF argName \in knownArguments /\ ~isArray
    THEN Fail(Msg("passed more than once", <<Str(argName), Str(v)>>))
    ELSE IF def.type = "bool"
    THEN extractLoop(ps, keyToArgNameMap, values, i + 1, knownArguments \cup {argName},
                     Store(result, argName, Bool(TRUE), isArray))
    ELSE IF i = Len(values)
    THEN Fail(Msg("Expected to have some value after CLI key", <<Str(v)>>))
    ELSE IF def.type \in {"int", "array of int", "double", "array of double"}
    THEN extractLoop(ps, keyToArgNameMap, values, i + 2, knownArguments \cup {argName},
                     Store(result, argName, ParseFloat(values[i + 1]), isArray))
    ELSE IF def.type \in {"string", "array of string", "path", "array of path"}
    THEN extractLoop(ps, keyToArgNameMap, values, i + 2, knownArguments \cup {argName},
                     Store(result, argName, Str(values[i + 1]), isArray))
    ELSE Throw(Msg("Unexpected argument value type", <<Str(def.type)>>))

extract(ps, values) ==
    LET keyToArgNameMap == buildKeysMap(ps)
    IN IF ~IsReturn(keyToArgNameMap) THEN keyToArgNameMap
       ELSE extractLoop(ps, keyToArgNameMap.value, values, 1, {}, EmptyObject)

----------------------------------------------------------------------------
(* resolvePath *)

\* process.cwd()
Cwd == "/cwd"

\* the root directories and the relative path strings of the model's alphabet
PathRoots == {"/cwd", "/base", "/etc"}
PathNames == {"a.json", "b.json", "d.json", "out", "x", "d", "-d", "-e", "--arg-name"}

\* Path.isAbsolute: the string starts with "/"
IsAbsolute(s) ==
    \/ s \in PathRoots
    \/ \E root \in PathRoots, name \in PathNames : s = root \o "/" \o name

\* Path.resolve(this.params.pathResolveBase || ".", argValue) for strings
\* without ".", ".." or repeated separators
resolvePath(ps, argValue) ==
    LET base == IF Truthy(ps.pathResolveBase) THEN ps.pathResolveBase.s ELSE "."
        absBase == IF IsAbsolute(base) THEN base
                   ELSE IF base = "." THEN Cwd
                   ELSE Cwd \o "/" \o base
    IN IF IsAbsolute(argValue) THEN argValue
       ELSE IF argValue = "" THEN absBase
       ELSE absBase \o "/" \o argValue

----------------------------------------------------------------------------
(* setDefaults *)

\* one pass of the loop body over result; the outcome is the updated result
\* or the TypeError of resolving something that is not a string
setDefaultsStep(ps, result, argName, def) ==
    LET r1 == IF ~("argName" \in DOMAIN result) /\ isArgumentOptional(def)
              THEN Put(result, argName, def.default)
              ELSE result
        v == Get(r1, argName)
    IN IF ~("argName" \in DOMAIN r1) THEN Return(r1)
       ELSE IF def.type = "path"
       THEN IF v.t = "string"
            THEN Return(Put(r1, argName, Str(resolvePath(ps, v.s))))
            ELSE Throw(Msg("TypeError", <<v>>))
       ELSE IF def.type = "array of path"
       THEN IF IsArray(v) /\ \A k \in 1..Len(v.a) : v.a[k].t = "string"
            THEN Return(Put(r1, argName,
                            Arr([k \in 1..Len(v.a) |-> Str(resolvePath(ps, v.a[k].s))])))
            ELSE Throw(Msg("TypeError", <<v>>))
       ELSE Return(r1)

RECURSIVE setDefaultsLoop(_, _, _)
setDefaultsLoop(ps, i, result) ==
    IF i > Len(ps.options) THEN Return(result)
    ELSE LET step == setDefaultsStep(ps, result, ps.options[i].name, ps.options[i].def)
         IN IF IsReturn(step) THEN setDefaultsLoop(ps, i + 1, step.value) ELSE step

\* result = {...args}, then the loop over Object.entries(this.params.options)
setDefaults(ps, args) == setDefaultsLoop(ps, 1, args)

----------------------------------------------------------------------------
(* Validator: checkNumber, checkString, checkBoolean, checkArrayOf,
   checkAllowedValues, checkConstraints *)

\* a check that called no sink
Passed == Return(EmptyObject)

checkAllowedValues(name, values, value) ==
    IF ~Truthy(values) THEN Passed
    ELSE IF \A k \in 1..Len(values.a) : ~StrictEq(values.a[k], value)
    THEN Fail(Msg("is not in allowed values set", <<Str(name), value>> \o values.a))
    ELSE Passed

checkNumber(name, def, value) ==
    IF TypeOf(value) # "number"
    THEN Fail(Msg("Expected number as CLI argument", <<Str(name), Str(TypeOf(value))>>))
    ELSE IF TypeOf(def.min) = "number" /\ NumLt(value, def.min)
    THEN Fail(Msg("cannot go below", <<Str(name), def.min, value>>))
    ELSE IF TypeOf(def.max) = "number" /\ NumLt(def.max, value)
    THEN Fail(Msg("cannot go above", <<Str(name), def.min, value>>))
    ELSE IF def.type = "int" \/ (def.type = "array of int" /\ HasFraction(value))
    THEN Fail(Msg("expected integer, but got fractional number", <<Str(name), value>>))
    ELSE IF ~IsFinite(value)
    THEN Fail(Msg("expected to be a finite number", <<Str(name), value>>))
    ELSE checkAllowedValues(name, def.allowedValues, value)

checkString(name, def, value) ==
    IF TypeOf(value) # "string"
    THEN Fail(Msg("Expected string as CLI argument", <<Str(name), Str(TypeOf(value))>>))
    ELSE IF TypeOf(def.minLength) = "number" /\ NumLt(Num(Len(value.s)), def.minLength)
    THEN Fail(Msg("is too short", <<Str(name), def.minLength, Num(Len(value.s))>>))
    ELSE IF TypeOf(def.maxLength) = "number" /\ NumLt(def.maxLength, Num(Len(value.s)))
    THEN Fail(Msg("is too long", <<Str(name), def.maxLength, Num(Len(value.s))>>))
    ELSE IF def.mustMatch.t = "regexp" /\ value.s \notin def.mustMatch.accepts
    THEN Fail(Msg("must match", <<Str(name)>>))
    ELSE checkAllowedValues(name, def.allowedValues, value)

checkBoolean(name, value) ==
    IF TypeOf(value) # "boolean"
    THEN Fail(Msg("Expected boolean as CLI argument", <<Str(name), Str(TypeOf(value))>>))
    ELSE Passed

\* the scalar check of an element of an array option
checkInner(name, def, element) ==
    IF def.type \in {"array of double", "array of int"}
    THEN checkNumber(name, def, element)
    ELSE checkString(name, def, element)

checkArrayOf(name, def, value) ==
    IF ~IsArray(value)
    THEN Fail(Msg("Expected array as CLI argument", <<Str(name), Str(TypeOf(value))>>))
    ELSE IF \A k \in 1..Len(value.a) : IsReturn(checkInner(name, def, value.a[k]))
    THEN Passed
    ELSE LET first == CHOOSE k \in 1..Len(value.a) :
                        /\ ~IsReturn(checkInner(name, def, value.a[k]))
                        /\ \A j \in 1..(k - 1) : IsReturn(checkInner(name, def, value.a[j]))
         IN checkInner(name, def, value.a[first])

\* the switch of checkConstraints for one option
checkOption(argName, def, result) ==
    CASE def.type \in {"double", "int"} -> checkNumber(argName, def, Get(result, argName))
      [] def.type \in {"string", "path"} -> checkString(argName, def, Get(result, argName))
      [] def.type = "bool" -> checkBoolean(argName, Get(result, argName))
      [] isArrayParameter(def) -> checkArrayOf(argName, def, Get(result, argName))
      [] OTHER -> Throw(Msg("Unexpected parameter type", <<Str(def.type)>>))

RECURSIVE checkConstraintsLoop(_, _, _)
checkConstraintsLoop(ps, i, result) ==
    IF i > Len(ps.options) THEN Passed
    ELSE LET checked == checkOption(ps.options[i].name, ps.options[i].def, result)
         IN IF IsReturn(checked) THEN checkConstraintsLoop(ps, i + 1, result) ELSE checked

checkConstraints(ps, result) == checkConstraintsLoop(ps, 1, result)

----------------------------------------------------------------------------
(* printHelp *)

RECURSIVE Join(_, _)
\* Array.prototype.join on strings
Join(strings, sep) ==
    IF Len(strings) = 0 THEN ""
    ELSE IF Len(strings) = 1 THEN strings[1]
    ELSE strings[1] \o sep \o Join(Tail(strings), sep)

Digits == <<"0", "1", "2", "3", "4", "5", "6", "7", "8", "9">>

RECURSIVE Decimal(_)
Decimal(n) ==
    IF n < 10 THEN Digits[n + 1] ELSE Decimal(n \div 10) \o Digits[(n % 10) + 1]

\* String(value) as join applies it to an element
StringOf(v) ==
    CASE v.t = "string" -> v.s
      [] v.t = "number" -> IF v.nan THEN "NaN"
                           ELSE IF v.f = 0 THEN Decimal(v.n)
                           ELSE Decimal(v.n) \o "." \o Digits[v.f + 1]
      [] v.t = "boolean" -> IF v.b THEN "true" ELSE "false"
      [] OTHER -> ""

RECURSIVE PadTo(_, _)
PadTo(line, width) == IF Len(line) < width THEN PadTo(line \o " ", width) ELSE line

SeqMax(ns) == IF Len(ns) = 0 THEN 0 ELSE CHOOSE m \in Range(ns) : \A n \in Range(ns) : n <= m

keyPart(def) == Join(def.keys, ", ") \o " (" \o def.type \o ")"

helpLine(def, maxKeyLength) ==
    LET padded == PadTo(keyPart(def), maxKeyLength)
        described == IF def.description # "" THEN padded \o ": " \o def.description ELSE padded
    IN IF Truthy(def.allowedValues)
       THEN (IF def.description # "" THEN described \o ";" ELSE described)
            \o " allowed values: "
            \o Join([k \in 1..Len(def.allowedValues.a) |-> StringOf(def.allowedValues.a[k])], ", ")
       ELSE described

RECURSIVE SelectVisible(_)
SelectVisible(options) ==
    IF Len(options) = 0 THEN <<>>
    ELSE IF Head(options).def.isHidden THEN SelectVisible(Tail(options))
    ELSE <<Head(options)>> \o SelectVisible(Tail(options))

printHelp(ps) ==
    LET header == IF ps.helpHeader # "" THEN <<ps.helpHeader>> ELSE <<>>
        maxKeyLength ==
            SeqMax([i \in 1..Len(ps.options) |-> Len(keyPart(ps.options[i].def))]) + 1
        visible == SelectVisible(ps.options)
    IN Help(header \o [i \in 1..Len(visible) |-> helpLine(visible[i].def, maxKeyLength)])

----------------------------------------------------------------------------
(* finalize, getLongestKey *)

\* [...def.keys].sort((a, b) => b.length - a.length)[0] ?? opt: the sort is
\* stable, so the first of the longest keys comes first
getLongestKey(ps, opt) ==
    LET keys == OptionDef(ps, opt).keys
    IN IF Len(keys) = 0 THEN opt
       ELSE keys[CHOOSE k \in 1..Len(keys) :
                    /\ \A j \in 1..Len(keys) : Len(keys[j]) <= Len(keys[k])
                    /\ \A j \in 1..(k - 1) : Len(keys[j]) < Len(keys[k])]

RECURSIVE SelectAbsentMandatories(_, _)
SelectAbsentMandatories(options, result) ==
    IF Len(options) = 0 THEN <<>>
    ELSE IF Head(options).name \notin DOMAIN result /\ ~isArgumentOptional(Head(options).def)
    THEN <<Head(options).name>> \o SelectAbsentMandatories(Tail(options), result)
    ELSE SelectAbsentMandatories(Tail(options), result)

finalize(ps, result) ==
    LET abstentMandatories == SelectAbsentMandatories(ps.options, result)
        haveHelp == \E i \in 1..Len(ps.options) :
                        /\ ps.options[i].def.type = "bool"
                        /\ ps.options[i].def.isHelp
                        /\ Truthy(Get(result, ps.options[i].name))
    IN IF haveHelp /\ ~ps.noAutoHelp THEN printHelp(ps)
       ELSE IF ~haveHelp /\ Len(abstentMandatories) > 0
       THEN Fail(Msg("Some mandatory CLI arguments are absent",
                     [k \in 1..Len(abstentMandatories) |->
                        Str(getLongestKey(ps, abstentMandatories[k]))]))
       ELSE Return(result)

----------------------------------------------------------------------------
(* parse, updateStructuredArguments *)

parse(ps, values) ==
    LET extracted == extract(ps, values) IN
    IF ~IsReturn(extracted) THEN extracted
    ELSE LET defaulted == setDefaults(ps, extracted.value) IN
    IF ~IsReturn(defaulted) THEN defaulted
    ELSE LET checked == checkConstraints(ps, defaulted.value) IN
    IF ~IsReturn(checked) THEN checked
    ELSE finalize(ps, defaulted.value)

updateStructuredArguments(ps, values) ==
    LET defaulted == setDefaults(ps, values) IN
    IF ~IsReturn(defaulted) THEN defaulted
    ELSE LET checked == checkConstraints(ps, defaulted.value) IN
    IF ~IsReturn(checked) THEN checked
    ELSE finalize(ps, defaulted.value)

----------------------------------------------------------------------------
(* isRunningAsCLI *)

\* Fs.realpath resolved to `p`
Resolved(p) == [ok |-> TRUE, path |-> p, error |-> EmptyObject]
\* Fs.realpath rejected: the error object Node builds for a failed system
\* call has the properties code, syscall and path (and no property `type`)
Rejected(code, p) ==
    [ok |-> FALSE, path |-> "",
     error |-> [code |-> Str(code), syscall |-> Str("realpath"), path |-> Str(p)]]

\* Fs.realpath rejected with an error object that carries the code in a
\* property `type` as well, as no error of Node does
RejectedTyped(code, p) ==
    [ok |-> FALSE, path |-> "",
     error |-> [code |-> Str(code), type |-> Str(code), syscall |-> Str("realpath"),
                path |-> Str(p)]]

\* await Fs.realpath(p) in the file system fs; a path fs does not know is absent
realpath(fs, p) == IF p \in DOMAIN fs THEN fs[p] ELSE Rejected("ENOENT", p)

\* the values of import.meta.url the model tries
ImportMetaUrls ==
    {"file:///app/tool.js", "file:///app/tool.JS", "file:///app/tool.mjs", "file:///lib/other.js"}

\* String.prototype.toLowerCase on ImportMetaUrls
ToLowerCase(s) == IF s = "file:///app/tool.JS" THEN "file:///app/tool.js" ELSE s

\* what may precede a suffix the model asks about
UrlPrefixes == {"", "file://", "file:///app/tool", "file:///lib/other", "file:///app", "file:///lib"}

\* String.prototype.endsWith on ImportMetaUrls
EndsWith(s, suffix) == \E prefix \in UrlPrefixes : s = prefix \o suffix

\* the function returned `value`: its promise is settled
Settled(value) == [settled |-> TRUE, value |-> value, jsFilePath |-> ""]
\* the function goes on to await Fs.realpath(jsFilePath)
Awaits(jsFilePath) == [settled |-> FALSE, value |-> FALSE, jsFilePath |-> jsFilePath]

\* the synchronous start of the function, up to the first await
beforeFirstRealpath(argv1) ==
    IF ~Truthy(argv1) THEN Settled(FALSE) ELSE Awaits(argv1.s)

\* the function from the settling of the first realpath to its return or to
\* the second await
afterFirstRealpath(importMetaUrl, jsFilePath, first) ==
    IF first.ok THEN Settled(EndsWith(importMetaUrl, first.path))
    ELSE IF Get(first.error, "type") # Str("ENOENT") THEN Settled(FALSE)
    ELSE IF ~EndsWith(ToLowerCase(importMetaUrl), ".js") THEN Settled(FALSE)
    ELSE Awaits(jsFilePath \o ".js")

\* the function from the settling of the second realpath to its return
afterSecondRealpath(importMetaUrl, second) ==
    IF ~second.ok THEN Settled(FALSE)
    ELSE Settled(EndsWith(importMetaUrl, second.path))

\* the value the promise settles to when nothing changes argv[1] or the file
\* system while the function is suspended
isRunningAsCLI(importMetaUrl, argv1, fs) ==
    LET start == beforeFirstRealpath(argv1) IN
    IF start.settled THEN start.value
    ELSE LET retry == afterFirstRealpath(importMetaUrl, start.jsFilePath,
                                         realpath(fs, start.jsFilePath)) IN
    IF retry.settled THEN retry.value
    ELSE afterSecondRealpath(importMetaUrl, realpath(fs, retry.jsFilePath)).value

----------------------------------------------------------------------------
(* The schemas handed to define and the inputs tried on each of them.
   A scenario is the argument of define, the tokens a command line is made
   of, and the values a structured input may give to each option. *)

Scenario(ps, tokens, candidates) ==
    [params |-> ps, tokens |-> tokens, candidates |-> candidates]

NoBase == Undefined

\* the arrays of at most MaxArrLen elements over a set of element values
ArraysOf(elements) == {Arr(a) : a \in SeqsUpTo(elements, MaxArrLen)}

ConfigPath == Opt("configPath", str(Fields(Arr(<<"-c", "--config-path">>))))
ModeFields == WithAllowed(Fields(Str("--mode")), <<Str("as-usual"), Str("negate")>>)
PortFields == Fields(Arr(<<"-p", "--port">>))
PortValues == {Num(0), Num(1), Num(65535), Num(65536)}
HelpValues == {Bool(TRUE), Bool(FALSE)}

Scenarios ==
    { Scenario(Params(<<ConfigPath>>, FALSE, NoBase),
               {"-c", "--config-path", "--help", "-h", "a.json"},
               [configPath |-> {Str("a.json"), Num(1)}, help |-> HelpValues]),
      Scenario(Params(<<ConfigPath, Opt("port", port(PortFields))>>, FALSE, NoBase),
               {"-c", "-p", "--help", "a.json", "1", "65536"},
               [configPath |-> {Str("a.json")}, port |-> PortValues, help |-> HelpValues]),
      Scenario(Params(<<Opt("multiplier", number(WithDefault(Fields(Str("--multiplier")), Num(2)))),
                        Opt("port", port(WithDefault(PortFields, Num(46725))))>>, FALSE, NoBase),
               {"--multiplier", "--port", "1", "1.5", "65535"},
               [multiplier |-> {Num(1), Frac(1, 5), NaN}, port |-> PortValues,
                help |-> HelpValues]),
      Scenario(Params(<<Opt("mode", str(WithDefault(ModeFields, Str("as-usual"))))>>, FALSE, NoBase),
               {"--mode", "--help", "as-usual", "negate", "sideways"},
               [mode |-> {Str("as-usual"), Str("negate"), Str("sideways")}, help |-> HelpValues]),
      Scenario(Params(<<Opt("mode", str(ModeFields))>>, FALSE, NoBase),
               {"--mode", "--help", "as-usual", "negate", "sideways"},
               [mode |-> {Str("as-usual"), Str("negate"), Str("sideways")}, help |-> HelpValues]),
      Scenario(Params(<<Opt("limit", number(WithBounds(Fields(Str("--limit")),
                                                       Num(minPort), Num(maxPort))))>>,
                      FALSE, NoBase),
               {"--limit", "0", "1", "1.5", "65535", "65536"},
               [limit |-> PortValues \cup {Frac(1, 5)}, help |-> HelpValues]),
      Scenario(Params(<<Opt("preset", pathArr(Fields(Str("--preset"))))>>, FALSE, Str("/base")),
               {"--preset", "--help", "a.json", "b.json", "/etc/a.json"},
               [preset |-> ArraysOf({Str("a.json"), Str("/etc/a.json")}), help |-> HelpValues]),
      Scenario(Params(<<Opt("preset", pathArr(WithDefault(Fields(Str("--preset")),
                                                          Arr(<<Str("d.json")>>)))),
                        Opt("out", path(WithDefault(Fields(Str("-o")), Str("out"))))>>,
                      FALSE, Str("/base")),
               {"--preset", "-o", "a.json", "b.json", "/etc/a.json"},
               [preset |-> ArraysOf({Str("a.json"), Str("b.json")}),
                out |-> {Str("a.json"), Str("/etc/a.json")}, help |-> {Bool(FALSE)}]),
      Scenario(Params(<<Opt("verbose", bool(Fields(Arr(<<"-v", "--verbose">>)))),
                        Opt("name", str(Fields(Str("-n"))))>>, FALSE, NoBase),
               {"-v", "--verbose", "-n", "--help", "x"},
               [verbose |-> HelpValues, name |-> {Str("x"), Str("-v")}, help |-> HelpValues]),
      Scenario(Params(<<Opt("tags", strArr(WithDefault(Fields(Arr(<<"-t", "--tag">>)), Arr(<<>>)))),
                        Opt("sizes", intArr(WithDefault(Fields(Str("-s")), Arr(<<Num(1)>>))))>>,
                      FALSE, NoBase),
               {"-t", "--tag", "-s", "x", "1", "1.5"},
               [tags |-> ArraysOf({Str("x"), Num(1)}),
                sizes |-> ArraysOf({Num(1), Frac(1, 5)}) \cup {Num(1)},
                help |-> {Bool(FALSE)}]),
      Scenario(Params(<<ConfigPath, Opt("alias", str(Fields(Arr(<<"-a", "-c">>))))>>, FALSE, NoBase),
               {"-c", "-a", "a.json"},
               [configPath |-> {Str("a.json")}, alias |-> {Str("b")}, help |-> HelpValues]),
      Scenario(Params(<<Opt("anything", str(WithDefault(Fields(Arr(<<>>)), Str("x"))))>>,
                      FALSE, NoBase),
               {"--help", "x"},
               [anything |-> {Str("x"), Str("y")}, help |-> HelpValues]),
      Scenario(Params(<<Opt("usage", help(Fields(Str("-?")))), ConfigPath>>, FALSE, NoBase),
               {"-?", "-c", "--help", "a.json"},
               [usage |-> HelpValues, configPath |-> {Str("a.json")}]),
      Scenario(Params(<<Opt("usage", help(Fields(Str("-?")))), ConfigPath>>, TRUE, NoBase),
               {"-?", "-c", "--help", "a.json"},
               [usage |-> HelpValues, configPath |-> {Str("a.json")}]),
      Scenario(Params(<<Opt("argName", str(Fields(Str("--arg-name"))))>>, FALSE, NoBase),
               {"--arg-name", "--help", "x"},
               [argName |-> {Str("x")}, help |-> HelpValues]),
      Scenario(Params(<<Opt("argName", str(Fields(Str("--arg-name")))),
                        Opt("dir", [Fields(Str("-d")) EXCEPT !.type = "path", !.keys = <<"-d">>,
                                        !.hasDefault = TRUE, !.default = Str("d")]),
                        Opt("extra", [Fields(Str("-e")) EXCEPT !.type = "array of path",
                                        !.keys = <<"-e">>])>>,
                      FALSE, Str("/base")),
               {"--arg-name", "-d", "-e", "x", "/etc/a.json"},
               [argName |-> {Str("x")}, dir |-> {Str("x"), Str("/etc/a.json")},
                extra |-> {Arr(<<Str("x")>>), Arr(<<Num(1)>>)}, help |-> HelpValues]),
      Scenario(Params(<<Opt("extra", [Fields(Str("-e")) EXCEPT !.type = "array of path",
                                        !.keys = <<"-e">>, !.hasDefault = TRUE,
                                        !.default = Arr(<<Str("d")>>)])>>,
                      FALSE, Str("/base")),
               {"-e", "--help", "x"},
               [extra |-> {Arr(<<Str("x")>>)}, help |-> HelpValues]),
      Scenario(Params(<<Opt("name", str([Fields(Str("-n")) EXCEPT !.minLength = Str("2"),
                                                                   !.maxLength = Str("3")]))>>,
                      FALSE, NoBase),
               {"-n", "--help", "x", "abc", "abcd"},
               [name |-> {Str("x"), Str("abc"), Str("abcd")}, help |-> HelpValues]),
      Scenario(Params(<<Opt("code", str([Fields(Str("-k")) EXCEPT
                                            !.minLength = Num(2), !.maxLength = Num(3),
                                            !.mustMatch = RegExp({"x", "abc", "abcd"})]))>>,
                      FALSE, NoBase),
               {"-k", "x", "abc", "abd", "abcd"},
               [code |-> {Str("x"), Str("abc"), Str("abd"), Str("abcd")}, help |-> HelpValues]),
      Scenario(Params(<<Opt("sizes", intArr(WithBounds(Fields(Str("-s")),
                                                      Num(minPort), Num(maxPort)))),
                        Opt("names", strArr([Fields(Str("-n")) EXCEPT !.maxLength = Str("2")]))>>,
                      FALSE, NoBase),
               {"-s", "-n", "1", "1.5"},
               [sizes |-> ArraysOf({Num(1), Frac(1, 5), Num(65536)}),
                names |-> {Arr(<<Str("x")>>), Arr(<<Str("x"), Str("abc")>>)},
                help |-> {Bool(FALSE)}]) }

\* the structured inputs of a scenario: any subset of the options, each
\* given one of its candidate values
StructuredInputs(sc) ==
    UNION { { f \in [D -> UNION {sc.candidates[n] : n \in D}] :
                \A n \in D : f[n] \in sc.candidates[n] } :
            D \in SUBSET (DOMAIN sc.candidates) }

----------------------------------------------------------------------------
(* The state machine: one Definition is built, then parse or
   updateStructuredArguments is called on it.  A call reads this.params and
   writes nothing the Definition keeps, so a behaviour follows one call. *)

NoScenario == Scenario(Params(<<>>, FALSE, NoBase), {}, EmptyObject)
NoOutcome == [kind |-> "none", value |-> EmptyObject, msg |-> NoMsg, lines |-> <<>>]
NoCall == [op |-> "none", values |-> <<>>, input |-> EmptyObject, outcome |-> NoOutcome]
\* no realpath has settled
NoRealpath == [ok |-> FALSE, path |-> "", error |-> EmptyObject]
NoCliRun ==
    [argv1 |-> Undefined, argv |-> <<>>, importMetaUrl |-> "", fs |-> EmptyObject,
     pc |-> "idle", jsFilePath |-> "", first |-> NoRealpath, second |-> NoRealpath,
     done |-> FALSE, result |-> FALSE, changes |-> 0,
     main |-> "none", direct |-> 0, handled |-> <<>>]

\* what the sinks received during a call that ended in `outcome`
ErrorSinkCalls(outcome) == IF outcome.kind = "error" THEN <<outcome.msg>> ELSE <<>>
HelpSinkCalls(outcome) == IF outcome.kind = "help" THEN <<outcome.lines>> ELSE <<>>

Init ==
    /\ scenario = NoScenario
    /\ params = NoScenario.params
    /\ defineResult = NoOutcome
    /\ call = NoCall
    /\ errorSink = <<>>
    /\ helpSink = <<>>
    /\ cliRun = NoCliRun
    /\ heap = EmptyObject
    /\ held = <<>>
    /\ log = <<>>
    /\ inputs = <<>>

Define(sc) ==
    /\ defineResult.kind = "none"
    /\ scenario' = sc
    /\ defineResult' = define(sc.params)
    /\ params' = IF IsReturn(defineResult') THEN defineResult'.value ELSE params
    /\ UNCHANGED <<call, errorSink, helpSink, cliRun, heap, held, log, inputs>>

\* the Definition exists and the behaviour's call is still to be made
Callable == IsReturn(defineResult) /\ call.op = "none"

Parse(values) ==
    /\ Callable
    /\ LET outcome == parse(params, values)
       IN /\ call' = [op |-> "parse", values |-> values, input |-> EmptyObject,
                      outcome |-> outcome]
          /\ errorSink' = ErrorSinkCalls(outcome)
          /\ helpSink' = HelpSinkCalls(outcome)
    /\ UNCHANGED <<scenario, params, defineResult, cliRun, heap, held, log, inputs>>

UpdateStructuredArguments(input) ==
    /\ Callable
    /\ LET outcome == updateStructuredArguments(params, input)
       IN /\ call' = [op |-> "updateStructuredArguments", values |-> <<>>, input |-> input,
                      outcome |-> outcome]
          /\ errorSink' = ErrorSinkCalls(outcome)
          /\ helpSink' = HelpSinkCalls(outcome)
    /\ UNCHANGED <<scenario, params, defineResult, cliRun, heap, held, log, inputs>>

Next ==
    \/ \E sc \in Scenarios : Define(sc)
    \/ Callable /\ \E values \in SeqsUpTo(scenario.tokens, MaxTokens) : Parse(values)
    \/ Callable /\ \E input \in StructuredInputs(scenario) : UpdateStructuredArguments(input)

Spec == Init /\ [][Next]_vars

TypeOK == defineResult.kind \in {"none", "return", "throw"}

----------------------------------------------------------------------------
(* The state machine of isRunningAsCLI: the process was started with some
   argv[1] on some file system, and the function is called once.  The
   function is async: the call returns a pending promise at its first await,
   the thread pool looks each Fs.realpath up at some moment after it was
   dispatched, and the promise settles in a later turn of the event loop;
   the caller and the rest of the system run before and after the lookup. *)

Argv1s == {Undefined, Str(""), Str("/app/tool"), Str("/app/tool.js"), Str("/bin/tool")}

\* the file systems: /app/tool.js and /app/tool may be files, /bin/tool may
\* be a symbolic link to /app/tool.js; anything may be unreadable, and the
\* rejection of a missing /app/tool or /bin/tool may carry a property `type`
FileSystems ==
    { fs \in [{"/app/tool.js", "/app/tool", "/bin/tool"} ->
                {Resolved("/app/tool.js"), Resolved("/app/tool"),
                 Rejected("ENOENT", "/app/tool.js"), Rejected("ENOENT", "/app/tool"),
                 Rejected("ENOENT", "/bin/tool"),
                 Rejected("EACCES", "/app/tool.js"), Rejected("EACCES", "/app/tool"),
                 Rejected("EACCES", "/bin/tool"),
                 RejectedTyped("ENOENT", "/app/tool"), RejectedTyped("ENOENT", "/bin/tool")}] :
        /\ \A p \in DOMAIN fs : ~fs[p].ok => fs[p].error.path = Str(p)
        /\ fs["/app/tool.js"].ok => fs["/app/tool.js"].path = "/app/tool.js"
        /\ fs["/app/tool"].ok => fs["/app/tool"].path = "/app/tool"
        /\ fs["/bin/tool"].ok =>
              /\ fs["/bin/tool"].path = "/app/tool.js"
              /\ fs["/app/tool.js"].ok }

\* the process with its argv[1], import.meta.url and file system
Process(argv1, argv, importMetaUrl, fs) ==
    [NoCliRun EXCEPT !.argv1 = argv1, !.argv = argv, !.importMetaUrl = importMetaUrl,
                     !.fs = fs]

InitCLI ==
    /\ scenario = NoScenario
    /\ params = NoScenario.params
    /\ defineResult = NoOutcome
    /\ call = NoCall
    /\ errorSink = <<>>
    /\ helpSink = <<>>
    /\ cliRun \in {Process(argv1, <<>>, url, fs) :
                      argv1 \in Argv1s, url \in ImportMetaUrls, fs \in FileSystems}
    /\ heap = EmptyObject
    /\ held = <<>>
    /\ log = <<>>
    /\ inputs = <<>>

\* the run after isRunningAsCLI(importMetaUrl) was called and returned its
\* promise: settled when argv[1] is missing, pending on the first realpath
\* otherwise
Started(run) ==
    LET start == beforeFirstRealpath(run.argv1)
    IN IF start.settled
       THEN [run EXCEPT !.pc = "settled", !.done = TRUE, !.result = start.value]
       ELSE [run EXCEPT !.pc = "realpath1", !.jsFilePath = start.jsFilePath]

\* the run after the function took the step `step`
Stepped(run, step) ==
    IF step.settled
    THEN [run EXCEPT !.pc = "settled", !.done = TRUE, !.result = step.value]
    ELSE [run EXCEPT !.pc = "realpath2", !.jsFilePath = step.jsFilePath]

\* the caller calls isRunningAsCLI(importMetaUrl)
CallIsRunningAsCLI ==
    /\ cliRun.pc = "idle" /\ cliRun.main = "none"
    /\ cliRun' = Started(cliRun)
    /\ UNCHANGED <<scenario, params, defineResult, call, errorSink, helpSink, heap, held, log, inputs>>

\* the thread pool performs the lookup of the first Fs.realpath, on the file
\* system of that moment; the promise is still pending
FirstRealpathLooksUp ==
    /\ cliRun.pc = "realpath1"
    /\ cliRun' = [cliRun EXCEPT !.pc = "settling1",
                                !.first = realpath(cliRun.fs, cliRun.jsFilePath)]
    /\ UNCHANGED <<scenario, params, defineResult, call, errorSink, helpSink, heap, held, log, inputs>>

\* the promise of the first Fs.realpath settles with what the lookup found
\* and the function resumes
FirstRealpathSettles ==
    /\ cliRun.pc = "settling1"
    /\ cliRun' = Stepped(cliRun, afterFirstRealpath(cliRun.importMetaUrl, cliRun.jsFilePath,
                                                    cliRun.first))
    /\ UNCHANGED <<scenario, params, defineResult, call, errorSink, helpSink, heap, held, log, inputs>>

\* the thread pool performs the lookup of the second Fs.realpath
SecondRealpathLooksUp ==
    /\ cliRun.pc = "realpath2"
    /\ cliRun' = [cliRun EXCEPT !.pc = "settling2",
                                !.second = realpath(cliRun.fs, cliRun.jsFilePath)]
    /\ UNCHANGED <<scenario, params, defineResult, call, errorSink, helpSink, heap, held, log, inputs>>

\* the promise of the second Fs.realpath settles with what the lookup found
\* and the function resumes
SecondRealpathSettles ==
    /\ cliRun.pc = "settling2"
    /\ cliRun' = Stepped(cliRun, afterSecondRealpath(cliRun.importMetaUrl, cliRun.second))
    /\ UNCHANGED <<scenario, params, defineResult, call, errorSink, helpSink, heap, held, log, inputs>>

\* the function is suspended at an await, before or after the lookup
Suspended == cliRun.pc \in {"realpath1", "settling1", "realpath2", "settling2"}

\* while the function is suspended, something changes the file system
FsChanges(fs) ==
    /\ Suspended /\ cliRun.changes < MaxChanges
    /\ fs # cliRun.fs
    /\ cliRun' = [cliRun EXCEPT !.fs = fs, !.changes = @ + 1]
    /\ UNCHANGED <<scenario, params, defineResult, call, errorSink, helpSink, heap, held, log, inputs>>

\* while the function is suspended, the caller assigns process.argv[1]
Argv1Changes(argv1) ==
    /\ Suspended /\ cliRun.changes < MaxChanges
    /\ argv1 # cliRun.argv1
    /\ cliRun' = [cliRun EXCEPT !.argv1 = argv1, !.changes = @ + 1]
    /\ UNCHANGED <<scenario, params, defineResult, call, errorSink, helpSink, heap, held, log, inputs>>

NextCLI ==
    \/ CallIsRunningAsCLI
    \/ FirstRealpathLooksUp
    \/ FirstRealpathSettles
    \/ SecondRealpathLooksUp
    \/ SecondRealpathSettles
    \/ \E fs \in FileSystems : FsChanges(fs)
    \/ \E argv1 \in Argv1s : Argv1Changes(argv1)

SpecCLI == InitCLI /\ [][NextCLI]_vars

----------------------------------------------------------------------------
(* The state machine of defineMain: a Definition is built and handed to
   defineMain with a handler.  defineMain starts isRunningAsCLI and returns
   the function that hands updateStructuredArguments' result to the handler;
   when isRunningAsCLI settles to true, the handler is called with the result
   of parse on process.argv.  The handler records what it is given. *)

\* the schemas of the Definitions handed to defineMain
MainScenarios ==
    {sc \in Scenarios : Len(sc.params.options) = 1 /\ sc.params.options[1].name = "mode"}

\* the tokens of process.argv.slice(2)
MainTokens == {"--mode", "--help", "negate"}
MainArgv1s == {Str("/app/tool"), Str("/app/tool.js")}
MainImportMetaUrls == {"file:///app/tool.js", "file:///lib/other.js"}
MainFileSystems ==
    {fs \in FileSystems : /\ ~fs["/app/tool"].ok
                            /\ fs["/app/tool"].error.code = Str("ENOENT")
                            /\ fs["/bin/tool"] = Rejected("ENOENT", "/bin/tool")}

InitMain ==
    /\ scenario = NoScenario
    /\ params = NoScenario.params
    /\ defineResult = NoOutcome
    /\ call = NoCall
    /\ errorSink = <<>>
    /\ helpSink = <<>>
    /\ cliRun \in {Process(argv1, argv, url, fs) :
                      argv1 \in MainArgv1s, argv \in SeqsUpTo(MainTokens, MaxMainTokens),
                      url \in MainImportMetaUrls, fs \in MainFileSystems}
    /\ heap = EmptyObject
    /\ held = <<>>
    /\ log = <<>>
    /\ inputs = <<>>

\* defineMain(cli, importMetaUrl, handler): the async function starts, calls
\* isRunningAsCLI and is suspended on its promise; the function is returned
DefineMain ==
    /\ IsReturn(defineResult)
    /\ cliRun.main = "none" /\ cliRun.pc = "idle"
    /\ cliRun' = [Started(cliRun) EXCEPT !.main = "waiting"]
    /\ UNCHANGED <<scenario, params, defineResult, call, errorSink, helpSink, heap, held, log, inputs>>

\* handler(record): the handler is reached when the call returned a record
Handled(handled, outcome) ==
    IF IsReturn(outcome) THEN Append(handled, outcome.value) ELSE handled

\* the promise of isRunningAsCLI has settled and the async function resumes:
\* if (await isRunningAsCLI(importMetaUrl)) handler(cli.parse())
MainResumes ==
    /\ cliRun.main = "waiting" /\ cliRun.done
    /\ IF cliRun.result
       THEN LET outcome == parse(params, cliRun.argv)
            IN /\ call' = [op |-> "parse", values |-> cliRun.argv, input |-> EmptyObject,
                           outcome |-> outcome]
               /\ errorSink' = errorSink \o ErrorSinkCalls(outcome)
               /\ helpSink' = helpSink \o HelpSinkCalls(outcome)
               /\ cliRun' = [cliRun EXCEPT !.main = "finished",
                                           !.handled = Handled(@, outcome)]
       ELSE /\ cliRun' = [cliRun EXCEPT !.main = "finished"]
            /\ UNCHANGED <<call, errorSink, helpSink>>
    /\ UNCHANGED <<scenario, params, defineResult, heap, held, log, inputs>>

\* the caller may call the function defineMain returned
MainCallable == cliRun.main # "none" /\ cliRun.direct < MaxDirectCalls

\* the function defineMain returned:
\* (args) => handler(cli.updateStructuredArguments(args))
MainCall(input) ==
    /\ MainCallable
    /\ LET outcome == updateStructuredArguments(params, input)
       IN /\ call' = [op |-> "updateStructuredArguments", values |-> <<>>,
                      input |-> input, outcome |-> outcome]
          /\ errorSink' = errorSink \o ErrorSinkCalls(outcome)
          /\ helpSink' = helpSink \o HelpSinkCalls(outcome)
          /\ cliRun' = [cliRun EXCEPT !.direct = @ + 1, !.handled = Handled(@, outcome)]
    /\ UNCHANGED <<scenario, params, defineResult, heap, held, log, inputs>>

NextMain ==
    \/ \E sc \in MainScenarios : Define(sc)
    \/ DefineMain
    \/ FirstRealpathLooksUp
    \/ FirstRealpathSettles
    \/ SecondRealpathLooksUp
    \/ SecondRealpathSettles
    \/ \E fs \in MainFileSystems : FsChanges(fs)
    \/ \E argv1 \in MainArgv1s : Argv1Changes(argv1)
    \/ MainResumes
    \/ MainCallable /\ \E input \in StructuredInputs(scenario) : MainCall(input)

SpecMain == InitMain /\ [][NextMain]_vars

----------------------------------------------------------------------------
(* The state machine of a Definition whose arrays are objects: the array a
   default holds lives in the heap, a call that assigns def.default to a
   property of its result hands out that same object, and the caller may push
   to the arrays of the results it holds. *)

\* a reference to the array object that is the default of option `name`
Ref(name) == [t |-> "ref", at |-> name]

\* the options whose default is an array object
SharedDefaults(ps) ==
    { ps.options[i].name : i \in { j \in 1..Len(ps.options) :
          /\ ps.options[j].def.hasDefault
          /\ IsArray(ps.options[j].def.default) } }

\* the heap after construction: the default arrays as the schema wrote them
InitialHeap(ps) == [n \in SharedDefaults(ps) |-> OptionDef(ps, n).default.a]

\* this.params with every default array read from the heap `h`
Deref(ps, h) ==
    [ps EXCEPT !.options =
        [i \in 1..Len(ps.options) |->
            IF ps.options[i].name \in DOMAIN h
            THEN [ps.options[i] EXCEPT !.def.default = Arr(h[ps.options[i].name])]
            ELSE ps.options[i]]]

\* the array object that is the default of option `name`, with the elements
\* it has now: an array value that carries its identity
DefaultObject(name, elements) == [t |-> "array", a |-> elements, at |-> name]

\* this.params with every default array carrying its identity
ByIdentity(ps, h) ==
    [ps EXCEPT !.options =
        [i \in 1..Len(ps.options) |->
            IF ps.options[i].name \in DOMAIN h
            THEN [ps.options[i] EXCEPT
                     !.def.default = DefaultObject(ps.options[i].name, h[ps.options[i].name])]
            ELSE ps.options[i]]]

\* a reference to the array that property `name` of the i-th input object
\* of the caller holds
InputRef(i, name) == [t |-> "inref", obj |-> i, at |-> name]

\* the i-th input object with every array carrying its identity
Identified(input, i) ==
    [n \in DOMAIN input |->
        IF IsArray(input[n])
        THEN [t |-> "array", a |-> input[n].a, obj |-> i, prop |-> n]
        ELSE input[n]]

\* a value as the caller holds it: the reference to a default array or to an
\* array of an input object where the value is that object, the value itself
\* otherwise
AsHeld(v) ==
    IF "obj" \in DOMAIN v THEN InputRef(v.obj, v.prop)
    ELSE IF "at" \in DOMAIN v THEN Ref(v.at)
    ELSE v

\* the object a call returns: the result of setDefaults, which starts as the
\* shallow copy {...args}, so a property the loop leaves alone is the array
\* of args itself, a property assigned from def.default is the default's own
\* array, and a property the loop rebuilds with map is a new array
ReturnedObject(ps, h, args, outcome) ==
    IF IsReturn(outcome)
    THEN LET result == setDefaults(ByIdentity(ps, h), args).value
         IN [n \in DOMAIN result |-> AsHeld(result[n])]
    ELSE EmptyObject

\* the values a caller pushes to an array it was handed
PushedValues == {Str("x")}

InitHeap ==
    /\ scenario = NoScenario
    /\ params = NoScenario.params
    /\ defineResult = NoOutcome
    /\ call = NoCall
    /\ errorSink = <<>>
    /\ helpSink = <<>>
    /\ cliRun = NoCliRun
    /\ heap = EmptyObject
    /\ held = <<>>
    /\ log = <<>>
    /\ inputs = <<>>

DefineOwned(sc) ==
    /\ defineResult.kind = "none"
    /\ scenario' = sc
    /\ defineResult' = define(sc.params)
    /\ params' = IF IsReturn(defineResult') THEN defineResult'.value ELSE params
    /\ heap' = IF IsReturn(defineResult') THEN InitialHeap(defineResult'.value) ELSE heap
    /\ UNCHANGED <<call, errorSink, helpSink, cliRun, held, log, inputs>>

\* the Definition exists and the caller has calls left
CallableAgain == IsReturn(defineResult) /\ Len(log) < MaxCalls

ParseAgain(values) ==
    /\ CallableAgain
    /\ LET current == Deref(params, heap)
           outcome == parse(current, values)
           extracted == extract(current, values)
       IN /\ call' = [op |-> "parse", values |-> values, input |-> EmptyObject,
                      outcome |-> outcome]
          /\ errorSink' = ErrorSinkCalls(outcome)
          /\ helpSink' = HelpSinkCalls(outcome)
          /\ log' = Append(log, call')
          /\ held' = Append(held, ReturnedObject(params, heap, extracted.value, outcome))
    /\ UNCHANGED <<scenario, params, defineResult, cliRun, heap, inputs>>

\* updateStructuredArguments(input), where input is the i-th input object of
\* the caller with the elements its arrays have now
UpdateWith(i, input) ==
    LET current == Deref(params, heap)
        outcome == updateStructuredArguments(current, input)
    IN /\ call' = [op |-> "updateStructuredArguments", values |-> <<>>, input |-> input,
                   outcome |-> outcome]
       /\ errorSink' = ErrorSinkCalls(outcome)
       /\ helpSink' = HelpSinkCalls(outcome)
       /\ log' = Append(log, call')
       /\ held' = Append(held, ReturnedObject(params, heap, Identified(input, i), outcome))

\* the caller builds a new input object and passes it
UpdateAgain(input) ==
    /\ CallableAgain
    /\ inputs' = Append(inputs, input)
    /\ UpdateWith(Len(inputs) + 1, input)
    /\ UNCHANGED <<scenario, params, defineResult, cliRun, heap>>

\* the caller passes an input object it has passed before
UpdateWithSame(i) ==
    /\ CallableAgain
    /\ i \in 1..Len(inputs)
    /\ UpdateWith(i, inputs[i])
    /\ UNCHANGED <<scenario, params, defineResult, cliRun, heap, inputs>>

\* the caller pushes `v` to the array that property `name` of the k-th result
\* it holds refers to: a default array of the Definition, an array of one of
\* the caller's input objects, or an array of the result alone
PushToResult(k, name, v) ==
    /\ k \in 1..Len(held)
    /\ name \in DOMAIN held[k]
    /\ \/ /\ held[k][name].t = "ref"
          /\ Len(heap[held[k][name].at]) < MaxArrLen
          /\ heap' = [heap EXCEPT ![held[k][name].at] = Append(@, v)]
          /\ UNCHANGED <<held, inputs>>
       \/ /\ held[k][name].t = "inref"
          /\ LET i == held[k][name].obj
                 n == held[k][name].at
             IN /\ Len(inputs[i][n].a) < MaxArrLen
                /\ inputs' = [inputs EXCEPT ![i] = Put(@, n, Arr(Append(inputs[i][n].a, v)))]
          /\ UNCHANGED <<heap, held>>
       \/ /\ held[k][name].t = "array"
          /\ Len(held[k][name].a) < MaxArrLen
          /\ held' = [held EXCEPT ![k] = Put(held[k], name, Arr(Append(held[k][name].a, v)))]
          /\ UNCHANGED <<heap, inputs>>
    /\ UNCHANGED <<scenario, params, defineResult, call, errorSink, helpSink, cliRun, log>>

NextHeap ==
    \/ \E sc \in Scenarios : DefineOwned(sc)
    \/ CallableAgain /\ \E values \in SeqsUpTo(scenario.tokens, MaxHeapTokens) : ParseAgain(values)
    \/ CallableAgain /\ \E input \in StructuredInputs(scenario) : UpdateAgain(input)
    \/ \E i \in 1..Len(inputs) : UpdateWithSame(i)
    \/ \E k \in 1..Len(held) : \E name \in DOMAIN held[k] : \E v \in PushedValues :
          PushToResult(k, name, v)

SpecHeap == InitHeap /\ [][NextHeap]_vars

----------------------------------------------------------------------------
(* Vocabulary of the properties *)

Result == call.outcome.value

Names == OptionNames(params)

KeysOf(name) == Range(OptionDef(params, name).keys)

MandatoryNames == {n \in Names : ~OptionDef(params, n).hasDefault}

HelpNames == {n \in Names : OptionDef(params, n).type = "bool" /\ OptionDef(params, n).isHelp}

\* the command line is nothing but keys of help options
OnlyHelpKeys ==
    /\ Len(call.values) = 1
    /\ \E h \in HelpNames : call.values[1] \in KeysOf(h)

\* a key of the option that no other key of it exceeds in length
IsLongestKey(name, key) ==
    /\ key \in KeysOf(name)
    /\ \A other \in KeysOf(name) : Len(other) <= Len(key)

\* the command line is one key of the option followed by one value
SingleArgument(name) ==
    /\ call.op = "parse"
    /\ Len(call.values) = 2
    /\ call.values[1] \in KeysOf(name)

\* the command line is a run of pairs, each a key of the option and a value
OnlyPairsOf(name) ==
    /\ call.op = "parse"
    /\ Len(call.values) \in {2, 4}
    /\ \A i \in 1..Len(call.values) : i % 2 = 1 => call.values[i] \in KeysOf(name)

\* the value the token has for an option of the type
ValueOfToken(def, token) ==
    IF def.type \in {"int", "double", "array of int", "array of double"}
    THEN ParseFloat(token) ELSE Str(token)

\* a number within the declared bounds
WithinBounds(def, v) ==
    /\ v.t = "number" /\ ~v.nan
    /\ def.min.t = "number" => ~NumLt(v, def.min)
    /\ def.max.t = "number" => ~NumLt(def.max, v)

\* the number a declared length stands for: the schema types minLength and
\* maxLength as strings, and a caller may hand in a number all the same
DeclaredLength(length) ==
    IF length.t = "string" THEN ParseFloat(length.s) ELSE length

\* a string within the declared lengths that matches the declared pattern
WithinLengths(def, v) ==
    /\ v.t = "string"
    /\ DeclaredLength(def.minLength).t = "number"
          => ~NumLt(Num(Len(v.s)), DeclaredLength(def.minLength))
    /\ DeclaredLength(def.maxLength).t = "number"
          => ~NumLt(DeclaredLength(def.maxLength), Num(Len(v.s)))
    /\ def.mustMatch.t = "regexp" => v.s \in def.mustMatch.accepts

\* a value of the scalar type of the option that meets every declared
\* constraint: bounds, wholeness and finiteness of a number, lengths and
\* pattern of a string, and the allowed values
ValidScalar(def, v) ==
    /\ IF def.type \in {"int", "double", "array of int", "array of double"}
       THEN WithinBounds(def, v) /\ (def.type \in {"int", "array of int"} => v.f = 0)
       ELSE IF def.type = "bool" THEN v.t = "boolean"
       ELSE WithinLengths(def, v)
    /\ def.allowedValues.t = "array" => v \in Range(def.allowedValues.a)

ValidValue(def, v) ==
    IF isArrayParameter(def)
    THEN v.t = "array" /\ \A k \in 1..Len(v.a) : ValidScalar(def, v.a[k])
    ELSE ValidScalar(def, v)

\* the schema has no option whose type is path or array of path
NoPathTypes == \A n \in Names : OptionDef(params, n).type \notin {"path", "array of path"}

\* the schema binds every key once and every option has a key
KeysAreSound(options) ==
    /\ \A i \in 1..Len(options) : Len(options[i].def.keys) > 0
    /\ \A i, j \in 1..Len(options) :
          i # j => Range(options[i].def.keys) \cap Range(options[j].def.keys) = {}
    /\ \A i \in 1..Len(options) : \A a, b \in 1..Len(options[i].def.keys) :
          a # b => options[i].def.keys[a] # options[i].def.keys[b]

----------------------------------------------------------------------------
(* Properties *)

\* C1: with auto-help enabled and a mandatory option in the schema, parsing a
\* command line that has a help key and omits the mandatory option invokes
\* the help sink and never the error sink.
C1_HelpShortCircuit ==
    ( /\ call.op = "parse"
      /\ ~params.noAutoHelp
      /\ KeysAreSound(params.options)
      /\ OnlyHelpKeys
      /\ MandatoryNames # {} )
    => (Len(helpSink) = 1 /\ errorSink = <<>>)

\* C2: parsing a command line without a help key that omits mandatory options
\* invokes the error sink exactly once, with one message that names the
\* longest key of every absent mandatory option.
C2_MissingMandatoryNamed ==
    ( /\ call.op = "parse"
      /\ KeysAreSound(params.options)
      /\ call.values = <<>>
      /\ MandatoryNames # {} )
    => ( /\ Len(errorSink) = 1
         /\ \A m \in MandatoryNames :
               \E key \in KeysOf(m) :
                  IsLongestKey(m, key) /\ Str(key) \in Range(errorSink[1].parts) )

\* C3: an optional non-array option given a valid value on the command line
\* has that value in the result of parse; the default is for absent options.
C3_SuppliedValueKept ==
    \A name \in Names :
        ( /\ SingleArgument(name)
          /\ KeysAreSound(params.options)
          /\ OptionDef(params, name).hasDefault
          /\ OptionDef(params, name).type \in {"string", "double"}
          /\ ValidValue(OptionDef(params, name),
                        ValueOfToken(OptionDef(params, name), call.values[2]))
          /\ IsReturn(call.outcome) )
        => Result[name] = ValueOfToken(OptionDef(params, name), call.values[2])

\* C4: updateStructuredArguments on a valid input that gives every mandatory
\* option returns the input with the defaults of the optional options it
\* left out, and the values it gave unchanged.
C4_UpdateMergesDefaults ==
    ( /\ call.op = "updateStructuredArguments"
      /\ NoPathTypes
      /\ "argName" \notin Names
      /\ \A h \in HelpNames : Get(call.input, h) # Bool(TRUE)
      /\ \A n \in MandatoryNames : n \in DOMAIN call.input
      /\ \A n \in DOMAIN call.input : ValidValue(OptionDef(params, n), call.input[n])
      /\ \A n \in Names : n \notin DOMAIN call.input =>
              ValidValue(OptionDef(params, n), OptionDef(params, n).default) )
    => ( /\ IsReturn(call.outcome)
         /\ Result = [n \in Names |->
                        IF n \in DOMAIN call.input THEN call.input[n]
                        ELSE OptionDef(params, n).default] )

\* C5: an array option whose key occurs k >= 1 times on the command line has
\* in the result of parse the k values given, in the order given.
C5_ArrayAccumulates ==
    \A name \in Names :
        ( /\ OnlyPairsOf(name)
          /\ KeysAreSound(params.options)
          /\ OptionDef(params, name).type \in {"array of string", "array of int"}
          /\ MandatoryNames \subseteq {name}
          /\ \A i \in 1..Len(call.values) : i % 2 = 0 =>
                  ValidScalar(OptionDef(params, name),
                              ValueOfToken(OptionDef(params, name), call.values[i]))
          /\ \A n \in Names \ {name} :
                  ValidValue(OptionDef(params, n), OptionDef(params, n).default) )
        => ( /\ IsReturn(call.outcome)
             /\ name \in DOMAIN Result
             /\ Result[name].t = "array"
             /\ Len(Result[name].a) = Len(call.values) \div 2
             /\ \A k \in 1..(Len(call.values) \div 2) :
                   Result[name].a[k] \in
                      { ValueOfToken(OptionDef(params, name), call.values[2 * k]),
                        Str(resolvePath(params, call.values[2 * k])) } )

\* C6: define raises the construction error exactly for the schemas in which
\* a key is claimed twice or an option has no key, before any call is made.
C6_DefineRejectsCollisions ==
    defineResult.kind # "none"
    => (defineResult.kind = "throw"
          <=> ~KeysAreSound(tryAddDefaultHelpOption(scenario.params).options))

\* C7: an option with min 1 and max 65535 built by the port helper accepts 1
\* and 65535 (the call returns them, no error sink call) and rejects 0 and
\* 65536 (error sink call), on parse and on updateStructuredArguments.
C7_PortBoundaries ==
    \A name \in Names :
        LET def == OptionDef(params, name)
            given == IF call.op = "parse"
                     THEN ParseFloat(call.values[2])
                     ELSE call.input[name]
        IN ( /\ def.type = "int"
             /\ def.min = Num(minPort) /\ def.max = Num(maxPort)
             /\ KeysAreSound(params.options)
             /\ MandatoryNames \subseteq {name}
             /\ \/ SingleArgument(name)
                \/ call.op = "updateStructuredArguments" /\ DOMAIN call.input = {name}
             /\ given \in {Num(0), Num(1), Num(65535), Num(65536)} )
           => ( /\ given \in {Num(1), Num(65535)} =>
                     /\ IsReturn(call.outcome)
                     /\ Result[name] = given
                     /\ errorSink = <<>>
                /\ given \in {Num(0), Num(65536)} => Len(errorSink) = 1 )

\* C8: for a string option with allowed values, mandatory or optional, parse
\* of its key followed by a value outside the allowed set invokes the error
\* sink with a message citing that value and returns no result.
C8_AllowedValuesEnforced ==
    \A name \in Names :
        LET def == OptionDef(params, name)
        IN ( /\ SingleArgument(name)
             /\ KeysAreSound(params.options)
             /\ def.type = "string"
             /\ def.allowedValues.t = "array"
             /\ Str(call.values[2]) \notin Range(def.allowedValues.a) )
           => ( /\ Len(errorSink) = 1
                /\ Str(call.values[2]) \in Range(errorSink[1].parts)
                /\ ~IsReturn(call.outcome) )

\* the options the schemas of the model build with the path and pathArr helpers
PathHelperNames == {"preset", "out"}

\* the strings of a value
StringsOf(v) ==
    IF v.t = "string" THEN {v.s}
    ELSE IF v.t = "array" THEN {v.a[k].s : k \in {j \in 1..Len(v.a) : v.a[j].t = "string"}}
    ELSE {}

\* C9: every string a returned result holds for an option built with the path
\* or pathArr helper is an absolute path under the resolution base (or the
\* absolute path that was given).
C9_PathsResolved ==
    ( /\ call.op # "none"
      /\ IsReturn(call.outcome) )
    => \A name \in PathHelperNames \cap DOMAIN Result :
          \A p \in StringsOf(Result[name]) : IsAbsolute(p)

\* C10: when realpath of argv[1] fails with ENOENT and importMetaUrl ends
\* with .js, isRunningAsCLI retries with .js appended and returns true
\* exactly when importMetaUrl ends with the path the retry resolved.
C10_JsSuffixRetry ==
    ( /\ cliRun.done
      /\ cliRun.pc = "settled"
      /\ cliRun.first # NoRealpath
      /\ ~cliRun.first.ok
      /\ cliRun.first.error.code = Str("ENOENT")
      /\ EndsWith(ToLowerCase(cliRun.importMetaUrl), ".js") )
    => LET retried == realpath(cliRun.fs, cliRun.first.error.path.s \o ".js")
       IN /\ cliRun.changes = 0
             => (cliRun.result <=> retried.ok /\ EndsWith(cliRun.importMetaUrl, retried.path))
          /\ cliRun.result
             => cliRun.second.ok /\ EndsWith(cliRun.importMetaUrl, cliRun.second.path)

\* a value that is an array another holder can reach
IsShared(v) == v.t \in {"ref", "inref"}

\* C11: whatever calls are made and whatever the callers push to the arrays of
\* the results they hold, the defaults of the Definition stay as the schema
\* wrote them, a call with the input of an earlier call has its outcome, and
\* no two results hold one and the same array.
C11_DefinitionReadOnly ==
    /\ Deref(params, heap) = params
    /\ \A i, j \in 1..Len(log) :
          (log[i].op = log[j].op /\ log[i].values = log[j].values
             /\ log[i].input = log[j].input)
          => log[i].outcome = log[j].outcome
    /\ \A i, j \in 1..Len(held) : \A n \in DOMAIN held[i] : \A m \in DOMAIN held[j] :
          (i # j /\ IsShared(held[i][n])) => held[i][n] # held[j][m]

\* the option a key belongs to, in a schema that binds every key once
OptionOfKey(key) == CHOOSE n \in Names : key \in KeysOf(n)

IsKnownKey(token) == \E n \in Names : token \in KeysOf(n)

ArrayTypes == {"array of string", "array of path", "array of int", "array of double"}

\* the positions of the command line that a left-to-right reading takes for
\* keys: the first token, then the token after a flag, or the token after
\* the value of any other key; the reading ends at a token that is no key
RECURSIVE KeyPositionsFrom(_, _)
KeyPositionsFrom(values, i) ==
    IF i > Len(values) \/ ~IsKnownKey(values[i]) THEN {}
    ELSE {i} \cup KeyPositionsFrom(values,
                     IF OptionDef(params, OptionOfKey(values[i])).type = "bool"
                     THEN i + 1 ELSE i + 2)

KeyPositions == KeyPositionsFrom(call.values, 1)

\* the key positions that repeat an option that is not an array
RepeatedAt ==
    { q \in KeyPositions :
        /\ OptionDef(params, OptionOfKey(call.values[q])).type \notin ArrayTypes
        /\ \E p \in KeyPositions :
              p < q /\ OptionOfKey(call.values[p]) = OptionOfKey(call.values[q]) }

FirstOf(positions) == CHOOSE q \in positions : \A r \in positions : q <= r

DuplicateError(q) ==
    Msg("passed more than once", <<Str(OptionOfKey(call.values[q])), Str(call.values[q])>>)

\* C12: in a parse call, when an option that is not an array (a flag included)
\* is named a second time, by the same or by another of its keys, the error
\* sink receives the duplicate-argument error naming that option and key; when
\* no such option is named twice, however often the keys of array options
\* occur, the error sink receives no duplicate-argument error.
C12_DuplicateRejected ==
    (call.op = "parse" /\ KeysAreSound(params.options))
    => /\ RepeatedAt # {} => errorSink = <<DuplicateError(FirstOf(RepeatedAt))>>
       /\ RepeatedAt = {} =>
             \A k \in 1..Len(errorSink) : errorSink[k].id # "passed more than once"

\* a flag repeated under its other key was rejected
C12_Witness ==
    /\ call.op = "parse" /\ KeysAreSound(params.options)
    /\ RepeatedAt # {}
    /\ \E q \in RepeatedAt : \E p \in KeyPositions :
          /\ p < q /\ call.values[p] # call.values[q]
          /\ OptionOfKey(call.values[p]) = OptionOfKey(call.values[q])
          /\ OptionDef(params, OptionOfKey(call.values[q])).type = "bool"
    /\ errorSink = <<DuplicateError(FirstOf(RepeatedAt))>>

\* the keys of an array option occurred twice and the call returned
C12_ArrayWitness ==
    /\ call.op = "parse" /\ KeysAreSound(params.options)
    /\ \E p, q \in KeyPositions :
          /\ p < q /\ OptionOfKey(call.values[p]) = OptionOfKey(call.values[q])
          /\ OptionDef(params, OptionOfKey(call.values[q])).type \in ArrayTypes
    /\ IsReturn(call.outcome)

\* the number of tokens the key at position q takes: a flag takes itself, any
\* other key takes itself and the token after it
WidthAt(q) ==
    IF OptionDef(params, OptionOfKey(call.values[q])).type = "bool" THEN 1 ELSE 2

\* the position at which the reading of KeyPositions ended
EndOfScan ==
    IF KeyPositions = {} THEN 1
    ELSE LET last == CHOOSE q \in KeyPositions : \A r \in KeyPositions : r <= q
         IN last + WidthAt(last)

\* the value the key at position q gives its option
ValueAt(q) ==
    LET def == OptionDef(params, OptionOfKey(call.values[q]))
    IN IF def.type = "bool" THEN Bool(TRUE) ELSE ValueOfToken(def, call.values[q + 1])

\* the names of the options that are neither arrays nor flags and have no default
PlainMandatoryNames ==
    {n \in MandatoryNames : OptionDef(params, n).type \notin ArrayTypes \cup {"bool"}}

\* C13: in a parse call that names no option twice, the extractor reads the
\* command line left to right: a flag takes its own token, any other key takes
\* the token after it as the value of its option whether or not that token is
\* a known key, and the reading goes on behind what was taken.  So a key
\* other than a flag in the last position is reported to the error sink as
\* lacking a value, the first token in a key position that is no key is
\* reported as unknown, and otherwise the extractor returns, for every option
\* that is not an array, the value of the token behind its key (true for a
\* flag) and nothing for an option that has no key on the line; a returned
\* result holds that value for every mandatory option.
C13_PositionalScan ==
    (call.op = "parse" /\ KeysAreSound(params.options) /\ RepeatedAt = {})
    => LET extracted == extract(params, call.values)
       IN IF EndOfScan = Len(call.values) + 2
          THEN /\ extracted = Fail(Msg("Expected to have some value after CLI key",
                                       <<Str(call.values[Len(call.values)])>>))
               /\ errorSink = <<extracted.msg>>
          ELSE IF EndOfScan <= Len(call.values)
          THEN /\ extracted = Fail(Msg("Unknown CLI parameter", <<Str(call.values[EndOfScan])>>))
               /\ errorSink = <<extracted.msg>>
          ELSE /\ IsReturn(extracted)
               /\ \A q \in KeyPositions :
                     LET n == OptionOfKey(call.values[q])
                     IN /\ OptionDef(params, n).type \notin ArrayTypes
                           => n \in DOMAIN extracted.value /\ extracted.value[n] = ValueAt(q)
                        /\ (IsReturn(call.outcome) /\ n \in PlainMandatoryNames)
                           => Result[n] = ValueAt(q)
               /\ \A n \in DOMAIN extracted.value :
                     \E q \in KeyPositions : OptionOfKey(call.values[q]) = n

\* a known key behind the key of a string option was returned as its value
C13_Witness ==
    /\ call.op = "parse" /\ KeysAreSound(params.options) /\ RepeatedAt = {}
    /\ IsReturn(call.outcome)
    /\ \E q \in KeyPositions :
          /\ WidthAt(q) = 2
          /\ IsKnownKey(call.values[q + 1])
          /\ OptionOfKey(call.values[q]) \in PlainMandatoryNames
          /\ Result[OptionOfKey(call.values[q])] = Str(call.values[q + 1])

\* C14: a record that parse or updateStructuredArguments returns has a value
\* for every option of the schema, the injected help option included, and
\* every value has the type of its option and meets every constraint the
\* option declares: a number its bounds, wholeness where the type is int and
\* finiteness, a string its lengths and its pattern, any value the allowed
\* values; of an array option every element does.
C14_ReturnedRecordValid ==
    (call.op # "none" /\ IsReturn(call.outcome))
    => \A n \in Names :
          /\ n \in DOMAIN Result
          /\ ValidValue(OptionDef(params, n), Result[n])

\* the part of C14 that leaves the lengths of strings aside: the record is
\* complete, and every value has its type and meets its bounds, wholeness,
\* finiteness, pattern and allowed values
TypedAndBounded(def, v) ==
    LET plain == [def EXCEPT !.minLength = Undefined, !.maxLength = Undefined]
    IN ValidValue(plain, v)

ReturnedRecordTypedAndBounded ==
    (call.op # "none" /\ IsReturn(call.outcome))
    => \A n \in Names :
          /\ n \in DOMAIN Result
          /\ TypedAndBounded(OptionDef(params, n), Result[n])

====
